---- MODULE Spec2Model ----
(***************************************************************************)
(* Atari-Skiing-RL: the episode loop of core/game.py (Game.play_game and   *)
(* the methods it drives) and the startup sequence of skiing.py.           *)
(*                                                                         *)
(* The emulator, the network and the policy are collaborators: the         *)
(* environment answers every step with a fresh frame, a reward and a done  *)
(* flag chosen nondeterministically, the policy answers take_action with   *)
(* any action of the action space.  Frames are identified by the number of *)
(* the environment step that produced them (0 for the frame of reset), so  *)
(* that "the most recent frames" is something a state can be compared to.  *)
(***************************************************************************)
EXTENDS Integers, Sequences, FiniteSets, TLC

\* ------------------------------------------------------------------ bounds
MaxEpisodes == 2
MaxStepsPerAction == 2
MaxFitFrequency == 2
MaxNoOperation == 2
MaxFrameHistory == 2
MaxBatchSize == 2
\* The run is followed for MaxEnvSteps environment steps: from the last of
\* them on, the environment (a gym TimeLimit) reports done on every step.
MaxEnvSteps == 6
MaxAppends == 4
\* Rewards of one environment step.
Rewards == {-1, 1}
\* Losses a fit that trained can report.
Losses == {1}
\* Replay memory capacity given to the DQN.
replay_memory_size == 2

\* ------------------------------------------------------------------- state
VARIABLES
    \* configuration (the parsed arguments of skiing.py)
    episodes, steps_per_action, fit_frequency, no_operation,
    agent_frame_history, batch_size,
    \* the other arguments of skiing.py, and what is stored at agent_path
    args,
    \* Game.observation_space_shape, and the EGreedyPolicy of the run
    observation_space_shape, policy,
    \* the exception that ended the startup ("" while there is none), and
    \* the warnings issued
    error, warnings,
    \* control
    pc,
    \* _game_loop locals
    episode, current_state, reward, max_score, total_score, done,
    \* _observe
    observe_left,
    \* _train_and_play locals
    tp_i, tp_reward, tp_next_state, tp_done,
    \* _take_action / _repeat_action locals
    action, ra_i, ra_current_state, ra_next_state, ra_reward, ra_done,
    \* environment: the number of the last frame of the episode, whether the
    \* episode is over, and the steps taken in the whole run
    env_frame, env_over, env_steps,
    \* agent: its attributes, its replay memory and its network weights
    agent, memory, weights,
    \* scorer arrays, indexed 0 .. episodes - 1
    max_scores, total_scores, huber_loss_history,
    \* history of the run, kept for the properties only
    h

cfgvars == <<episodes, steps_per_action, fit_frequency, no_operation,
             agent_frame_history, batch_size, args, observation_space_shape,
             policy, error, warnings>>
glvars == <<episode, current_state, reward, max_score, total_score, done>>
tpvars == <<tp_i, tp_reward, tp_next_state, tp_done>>
ravars == <<action, ra_i, ra_current_state, ra_next_state, ra_reward, ra_done>>
envvars == <<env_frame, env_over, env_steps>>
agentvars == <<agent, memory, weights>>
scorevars == <<max_scores, total_scores, huber_loss_history>>
vars == <<cfgvars, pc, glvars, observe_left, tpvars, ravars, envvars,
          agentvars, scorevars, h>>

\* ----------------------------------------------------------------- helpers
\* math.inf, used as the initial max score (-inf).
inf == 1000
NegInf == 0 - inf

Max(a, b) == IF a >= b THEN a ELSE b

\* The action space of the environment (environment.action_space.n); 0 is
\* the no-operation action.
Actions == {0, 1}

\* A raw frame as the environment returns it, identified by the number of the
\* step that produced it.
Frame(n) == [id |-> n, pre |-> FALSE]

\* A raw observation held in a state variable (not a stack of frames).
Raw(f) == <<f>>

\* utils.preprocessing.atari_preprocess: a pure function of the frame.
atari_preprocess(f) == [id |-> f.id, pre |-> TRUE]

\* np.stack of agent_frame_history copies of the preprocessed frame, reshaped.
InitialState(f) == [i \in 1 .. agent_frame_history |-> f]

\* np.append(next_state, current_state[:, :, :, :history - 1], axis=3).
StackFrames(f, state) ==
    <<f>> \o SubSeq(state, 1, agent_frame_history - 1)

\* The done flags the environment may answer a step with.
EnvDone == IF env_steps + 1 >= MaxEnvSteps THEN {TRUE} ELSE BOOLEAN

\* A memory built one transition larger than replay_memory_size.
MemoryCapacityOneMore == replay_memory_size + 1

\* DQN(..., memory_size=replay_memory_size): the capacity of the memory of
\* the agent create_agent builds.
MemoryCapacity == replay_memory_size

\* ReplayMemory.append: a ring buffer that overwrites its oldest entry.
MemoryAppend(mem, t) ==
    IF Len(mem) < MemoryCapacity THEN Append(mem, t)
    ELSE Append(Tail(mem), t)

\* The per-episode part of the history.
EpisodeHistory ==
    [obs_n |-> 0, obs_steps |-> 0, obs_actions |-> {},
     play_steps |-> 0, appends |-> 0, selections |-> 0, grp_sel |-> 0,
     fits |-> 0, play_sum |-> 0, play_max |-> NegInf,
     recent |-> <<>>, prev_recent |-> <<>>,
     rep_steps |-> 0, rep_sum |-> 0, rep_actions |-> {}, rep_appends |-> 0,
     rep_done_at |-> 0,
     fit_mem |-> 0, fit_none |-> FALSE, fit_w0 |-> 0, fit_l0 |-> 0,
     fits_after_done |-> 0, obs_done |-> FALSE,
     rep_state0 |-> <<>>, app_sum |-> 0, score_writes |-> 0]

\* The history at the start of the run.
RunHistory ==
    [resets |-> 0, reported |-> <<>>, eoe |-> <<>>, checks_run |-> FALSE,
     appended |-> <<>>, eps_before |-> 0, written |-> {},
     ep |-> EpisodeHistory]

\* ------------------------------------------------------------- the startup
\* The frame of gym's Skiing-v0: environment.observation_space.shape.
EnvHeight == 250
EnvWidth == 160

\* environment.action_space.n
action_space_size == Cardinality(Actions)

\* The least frame dimension the first convolutional layer accepts.
MIN_FRAME_DIM_THAT_PASSES_NET == 32

\* run_checks' thresholds.
poor_observe == 500
bad_target_model_change == 500
frame_history_ceiling == 10

\* math.ceil(a / b) on positive integers.
CeilDiv(a, b) == (a + b - 1) \div b

\* Game.__init__: (ceil(rows / scale), ceil(columns / scale), history).
ObservationSpaceShape(scale, history) ==
    <<CeilDiv(EnvHeight, scale), CeilDiv(EnvWidth, scale), history>>

\* core.model.frame_can_pass_the_net: both dimensions reach the minimum.
frame_can_pass_the_net(height, width) ==
    /\ height >= MIN_FRAME_DIM_THAT_PASSES_NET
    /\ width >= MIN_FRAME_DIM_THAT_PASSES_NET

\* EGreedyPolicy(epsilon, final_epsilon, epsilon_decay, total_observe_count,
\* action_space_size); the epsilons are counted in tenths, and the policy
\* has selected no action yet.
EGreedyPolicy(a) ==
    [epsilon |-> a.epsilon, final_epsilon |-> a.final_epsilon,
     epsilon_decay |-> a.epsilon_decay,
     total_observe_count |-> a.total_observe_count,
     action_size |-> action_space_size, steps |-> 0]

\* EGreedyPolicy.take_action, its effect on the schedule: the step counter
\* advances; epsilon is held during the first total_observe_count steps and
\* then lowered by epsilon_decay per step, not below final_epsilon.
PolicyStep(p) ==
    [p EXCEPT !.steps = @ + 1,
              !.epsilon = IF p.steps < p.total_observe_count THEN @
                          ELSE Max(p.final_epsilon, @ - p.epsilon_decay)]

\* A policy other than any the arguments build, as a stored agent holds it.
StoredPolicy ==
    [epsilon |-> 3, final_epsilon |-> 2, epsilon_decay |-> 1,
     total_observe_count |-> 1, action_size |-> action_space_size,
     steps |-> 4]

\* What agent_path holds: an agent saved by an earlier run, which fits the
\* game ("same") or was trained on another frame shape or action space.
StoredAgent(kind, shape) ==
    [observation_space_shape |->
         IF kind = "other_shape"
         THEN <<shape[1], shape[2], shape[3] + 1>> ELSE shape,
     action_size |->
         IF kind = "other_actions"
         THEN action_space_size + 1 ELSE action_space_size,
     target_model_change |-> 7,
     gamma |-> 5,
     batch_size |-> 1,
     policy |-> StoredPolicy,
     memory |-> <<[state |-> <<>>, action |-> 0, reward |-> 0,
                   next_state |-> <<>>]>>,
     weights |-> 3]

\* The agent attributes before create_agent has run.
NoAgent ==
    [observation_space_shape |-> <<>>, action_size |-> 0,
     target_model_change |-> 0, gamma |-> 0, batch_size |-> 0,
     policy |-> <<>>, loaded |-> FALSE]

\* DQN(model, target_model_change, gamma, batch_size, shape, action size,
\* policy, memory_size): a new agent.
NewAgent(shape, pol) ==
    [observation_space_shape |-> shape, action_size |-> action_space_size,
     target_model_change |-> args.target_model_change, gamma |-> args.gamma,
     batch_size |-> batch_size, policy |-> pol, loaded |-> FALSE]

\* A create_agent that leaves out `dqn.batch_size = batch_size`.
LoadedAgentKeepsBatchSize(dqn, pol) ==
    [observation_space_shape |-> dqn.observation_space_shape,
     action_size |-> dqn.action_size,
     target_model_change |-> args.target_model_change, gamma |-> args.gamma,
     batch_size |-> dqn.batch_size, policy |-> pol, loaded |-> TRUE]

\* create_agent: the loaded agent with the configuration of this run.
LoadedAgent(dqn, pol) ==
    [observation_space_shape |-> dqn.observation_space_shape,
     action_size |-> dqn.action_size,
     target_model_change |-> args.target_model_change, gamma |-> args.gamma,
     batch_size |-> batch_size, policy |-> pol, loaded |-> TRUE]

\* The arguments the game loop does not read, as the startup of a run that
\* builds a new agent sets them.
PlainArgs ==
    [agent_path |-> "", file_exists |-> FALSE, stored |-> "none",
     downsample_scale |-> 5,
     epsilon |-> 10, final_epsilon |-> 1, epsilon_decay |-> 1,
     total_observe_count |-> 600, target_model_change |-> 1000,
     gamma |-> 9, info_interval_mean |-> 10, plot_train_results |-> TRUE]

\* ------------------------------------------------------------ the game loop
\* The variables of the game loop before play_game: nothing played, the
\* memory empty, the scorer arrays zeroed.
NothingPlayed ==
    /\ episode = 0
    /\ current_state = <<>>
    /\ reward = 0
    /\ max_score = NegInf
    /\ total_score = 0
    /\ done = FALSE
    /\ observe_left = 0
    /\ tp_i = 0 /\ tp_reward = 0 /\ tp_next_state = <<>> /\ tp_done = FALSE
    /\ action = 0 /\ ra_i = 0 /\ ra_current_state = <<>> /\ ra_next_state = <<>>
    /\ ra_reward = 0 /\ ra_done = FALSE
    /\ env_frame = 0 /\ env_over = FALSE /\ env_steps = 0
    /\ memory = <<>> /\ weights = 0
    /\ error = "" /\ warnings = {}
    /\ max_scores = [i \in 0 .. episodes - 1 |-> 0]
    /\ total_scores = [i \in 0 .. episodes - 1 |-> 0]
    /\ huber_loss_history = [i \in 0 .. episodes - 1 |-> 0]
    /\ h = RunHistory

Init ==
    /\ episodes = MaxEpisodes
    /\ steps_per_action \in 1 .. MaxStepsPerAction
    /\ fit_frequency \in 1 .. MaxFitFrequency
    /\ no_operation = MaxNoOperation
    /\ agent_frame_history = MaxFrameHistory
    /\ batch_size = MaxBatchSize
    /\ args = PlainArgs
    /\ observation_space_shape =
          ObservationSpaceShape(args.downsample_scale, agent_frame_history)
    /\ policy = EGreedyPolicy(args)
    /\ agent = NewAgent(observation_space_shape, policy)
    /\ pc = "play_game"
    /\ NothingPlayed

\* play_game up to the first request to the generator: the plotter and the
\* progress bar.
PlayGame ==
    /\ pc = "play_game"
    /\ pc' = "for_episode"
    /\ UNCHANGED <<cfgvars, glvars, observe_left, tpvars, ravars, envvars,
                   agentvars, scorevars, h>>

\* A range that starts at episode 2.
EpisodeRangeFromTwo == 2 .. episodes

\* A range that stops one episode early.
EpisodeRangeOneShort == 1 .. episodes - 1

\* range(1, self._episodes + 1)
EpisodeRange == 1 .. episodes

\* A draw that may exceed no_operation by one.
ObserveCountOneMore == 1 .. no_operation + 1

\* randint(1, self._no_operation)
ObserveCount == 1 .. no_operation

\* _game_loop: the next episode starts; its variables are initialised, the
\* environment is reset and _observe draws its number of steps.
ResetEpisode ==
    /\ pc = "for_episode"
    /\ episode + 1 \in EpisodeRange
    /\ episode' = episode + 1
    /\ reward' = 0
    /\ max_score' = NegInf
    /\ total_score' = 0
    /\ done' = FALSE
    /\ env_frame' = 0
    /\ env_over' = FALSE
    /\ env_steps' = env_steps
    /\ current_state' = Raw(Frame(0))
    /\ \E n \in ObserveCount :
          /\ observe_left' = n
          /\ h' = [h EXCEPT !.resets = @ + 1,
                            !.ep = [EpisodeHistory EXCEPT !.obs_n = n]]
    /\ pc' = "observe"
    /\ UNCHANGED <<cfgvars, tpvars, ravars, agentvars, scorevars>>

\* _game_loop: the range is exhausted, the generator ends and play_game
\* returns.
GameLoopExhausted ==
    /\ pc = "for_episode"
    /\ episode + 1 \notin EpisodeRange
    /\ pc' = "finished"
    /\ UNCHANGED <<cfgvars, glvars, observe_left, tpvars, ravars, envvars,
                   agentvars, scorevars, h>>

\* The action _observe passes to env.step.
NoOperation == 0

\* An _observe that drops the done flag of env.step.
ObserveForgetsDone(d) == FALSE

\* _observe: observe, _, done, _ = self._env.step(0)
ObserveDone(d) == d

\* _observe: one iteration of the no-operation loop.
ObserveStep ==
    /\ pc = "observe"
    /\ \E r \in Rewards, d \in EnvDone :
          /\ env_frame' = env_frame + 1
          /\ env_over' = d
          /\ env_steps' = IF env_steps < MaxEnvSteps THEN env_steps + 1 ELSE env_steps
          /\ current_state' = Raw(Frame(env_frame + 1))
          /\ done' = ObserveDone(d)
          /\ observe_left' = observe_left - 1
          /\ pc' = IF ObserveDone(d) \/ observe_left - 1 = 0
                   THEN "stack" ELSE "observe"
          /\ h' = [h EXCEPT !.ep.obs_steps = @ + 1,
                            !.ep.obs_actions = @ \cup {NoOperation},
                            !.ep.obs_done = d]
    /\ UNCHANGED <<cfgvars, episode, reward, max_score, total_score, tpvars,
                   ravars, agentvars, scorevars>>

\* _game_loop: the frame _observe returned is preprocessed and replicated
\* into the first state of the episode.
StackInitialState ==
    /\ pc = "stack"
    /\ current_state' = InitialState(atari_preprocess(current_state[1]))
    /\ h' = [h EXCEPT !.ep.recent =
                 [i \in 1 .. agent_frame_history |->
                     [id |-> env_frame, pre |-> TRUE]]]
    /\ pc' = "while"
    /\ UNCHANGED <<cfgvars, episode, reward, max_score, total_score, done,
                   observe_left, tpvars, ravars, envvars, agentvars,
                   scorevars>>

\* _game_loop: `while not done` enters _train_and_play, which initialises
\* its variables.
EnterTrainAndPlay ==
    /\ pc = "while"
    /\ ~done
    /\ tp_i' = 0
    /\ tp_reward' = 0
    /\ tp_next_state' = current_state
    /\ tp_done' = FALSE
    /\ h' = [h EXCEPT !.ep.grp_sel = 0]
    /\ pc' = "tp_loop"
    /\ UNCHANGED <<cfgvars, glvars, observe_left, ravars, envvars, agentvars,
                   scorevars>>

\* _train_and_play: the state its loop hands to _take_action.
SelectionState == current_state

\* _take_action: the policy picks an action on the state it is given, which
\* advances its schedule, and _repeat_action initialises its variables.  The
\* policy of the agent is the policy object of the run.
TakeAction ==
    /\ pc = "tp_loop"
    /\ \E a \in Actions : action' = a
    /\ policy' = PolicyStep(agent.policy)
    /\ agent' = [agent EXCEPT !.policy = policy']
    /\ ra_i' = 0
    /\ ra_reward' = 0
    /\ ra_current_state' = SelectionState
    /\ ra_next_state' = SelectionState
    /\ ra_done' = FALSE
    /\ h' = [h EXCEPT !.eps_before = agent.policy.epsilon,
                      !.ep.selections = @ + 1,
                      !.ep.grp_sel = @ + 1,
                      !.ep.rep_steps = 0,
                      !.ep.rep_sum = 0,
                      !.ep.rep_actions = {},
                      !.ep.rep_appends = 0,
                      !.ep.rep_done_at = 0,
                      !.ep.rep_state0 = SelectionState,
                      !.ep.app_sum = 0]
    /\ pc' = "ra_loop"
    /\ UNCHANGED <<episodes, steps_per_action, fit_frequency, no_operation,
                   agent_frame_history, batch_size, args,
                   observation_space_shape, error, warnings, glvars,
                   observe_left, tpvars, envvars, memory, weights, scorevars>>

\* A repeat that keeps the reward of its last step only.
RepeatKeepsLastReward(sum, new_reward) == new_reward

\* _repeat_action: reward += new_reward
RepeatAddReward(sum, new_reward) == sum + new_reward

\* A group that keeps the reward of its last action only.
GroupKeepsLastReward(sum, new_reward) == new_reward

\* _train_and_play: reward += new_reward
GroupAddReward(sum, new_reward) == sum + new_reward

\* _game_loop: total_score += reward
TotalAddReward(sum, new_reward) == sum + new_reward

\* _game_loop: max_score = max(max_score, reward)
MaxScore(score, new_reward) == Max(score, new_reward)

\* A group that goes on to fit_frequency actions after a done.
GroupIgnoresDone(taken, d) == taken >= fit_frequency

\* A group that takes one action more than fit_frequency.
GroupEndsLate(taken, d) == d \/ taken > fit_frequency

\* _train_and_play: its loop ends on done, or after fit_frequency actions.
GroupEnds(taken, d) == d \/ taken >= fit_frequency

\* A repeat that goes on after done.
RepeatNeverBreaks(d) == FALSE

\* `if done: break` of _repeat_action.
RepeatBreaks(d) == d

\* The sample <s, a, r, s'> _repeat_action saves.
Transition(s, a, r, n) ==
    [state |-> s, action |-> a, reward |-> r, next_state |-> n]

\* The history after one environment step of the PLAY phase.
PlayStepHistory(a, r, d, stacked) ==
    [h EXCEPT
        !.ep.play_steps = @ + 1,
        !.ep.play_sum = @ + r,
        !.ep.play_max = Max(@, r),
        !.ep.rep_steps = @ + 1,
        !.ep.rep_sum = @ + r,
        !.ep.rep_actions = @ \cup {a},
        !.ep.rep_done_at = IF d /\ @ = 0 THEN h.ep.rep_steps + 1 ELSE @,
        !.ep.appends = IF stacked THEN @ + 1 ELSE @,
        !.ep.rep_appends = IF stacked THEN @ + 1 ELSE @,
        !.ep.app_sum = IF stacked THEN h.ep.rep_sum + r ELSE @,
        !.ep.prev_recent = IF stacked THEN h.ep.recent ELSE @,
        !.ep.recent =
            IF stacked
            THEN <<[id |-> env_frame + 1, pre |-> TRUE]>>
                 \o SubSeq(@, 1, agent_frame_history - 1)
            ELSE @]

\* _repeat_action: one iteration of its loop.
RepeatStep ==
    /\ pc = "ra_loop"
    /\ \E r \in Rewards, d \in EnvDone :
          /\ env_frame' = env_frame + 1
          /\ env_over' = d
          /\ env_steps' = IF env_steps < MaxEnvSteps THEN env_steps + 1 ELSE env_steps
          /\ ra_reward' = RepeatAddReward(ra_reward, r)
          /\ ra_done' = d
          /\ IF RepeatBreaks(d)
             THEN /\ ra_next_state' = Raw(Frame(env_frame + 1))
                  /\ UNCHANGED <<ra_current_state, ra_i, memory>>
                  /\ h' = PlayStepHistory(action, r, d, FALSE)
                  /\ pc' = "ra_return"
             ELSE /\ ra_next_state' =
                        StackFrames(atari_preprocess(Frame(env_frame + 1)),
                                    ra_current_state)
                  /\ memory' = MemoryAppend(memory,
                        Transition(ra_current_state, action,
                                   RepeatAddReward(ra_reward, r),
                                   ra_next_state'))
                  /\ ra_current_state' = ra_next_state'
                  /\ ra_i' = ra_i + 1
                  /\ h' = PlayStepHistory(action, r, d, TRUE)
                  /\ pc' = IF ra_i + 1 < steps_per_action
                           THEN "ra_loop" ELSE "ra_return"
    /\ UNCHANGED <<cfgvars, glvars, observe_left, tpvars, action, agent,
                   weights, scorevars>>

\* The locals of _take_action and _repeat_action once they have returned.
RepeatActionLocalsDropped ==
    /\ action' = 0
    /\ ra_i' = 0
    /\ ra_current_state' = <<>>
    /\ ra_next_state' = <<>>
    /\ ra_reward' = 0
    /\ ra_done' = FALSE

\* The locals of _train_and_play once it has returned.
TrainAndPlayLocalsDropped ==
    /\ tp_i' = 0
    /\ tp_reward' = 0
    /\ tp_next_state' = <<>>
    /\ tp_done' = FALSE

\* _train_and_play: _take_action has returned; the reward is added and the
\* loop over fit_frequency goes on, or ends on done or exhaustion.
RepeatReturn ==
    /\ pc = "ra_return"
    /\ tp_next_state' = ra_next_state
    /\ tp_reward' = GroupAddReward(tp_reward, ra_reward)
    /\ tp_done' = ra_done
    /\ tp_i' = tp_i + 1
    /\ pc' = IF GroupEnds(tp_i + 1, ra_done) THEN "fit" ELSE "tp_loop"
    /\ RepeatActionLocalsDropped
    /\ UNCHANGED <<cfgvars, glvars, observe_left, envvars, agentvars,
                   scorevars, h>>

\* Agent.fit answers None when the memory holds fewer than batch_size
\* transitions.
FitIsNoOp == Len(memory) < agent.batch_size

\* Agent.fit: the weights of the online network after a gradient step.
TrainedWeights(w) == w + 1

\* An index that takes the episode number as it is.
ScoreIndexIsEpisode(e) == e

\* [episode - 1]: the entry of an episode in max_scores, total_scores and
\* huber_loss_history.
ScoreIndex(e) == e - 1

\* A loss history that counts every fit, trained or not.
AccumulateLossAlways(history, is_none, loss) ==
    [history EXCEPT ![episode - 1] = @ + 1]

\* huber_loss_history[episode - 1] += loss, unless fit answered None.
AccumulateLoss(history, is_none, loss) ==
    IF is_none THEN history
    ELSE [history EXCEPT ![ScoreIndex(episode)] = @ + loss]

\* _train_and_play: the agent is fitted and the loss is kept.
Fit ==
    /\ pc = "fit"
    /\ IF FitIsNoOp
       THEN /\ weights' = weights
            /\ huber_loss_history' =
                  AccumulateLoss(huber_loss_history, TRUE, 0)
            /\ h' = [h EXCEPT !.ep.fits = @ + 1,
                              !.ep.fits_after_done =
                                  IF env_over THEN @ + 1 ELSE @,
                              !.ep.fit_mem = Len(memory),
                              !.ep.fit_none = TRUE,
                              !.ep.fit_w0 = weights,
                              !.ep.fit_l0 = huber_loss_history[episode - 1]]
       ELSE /\ weights' = TrainedWeights(weights)
            /\ \E loss \in Losses :
                  huber_loss_history' =
                      AccumulateLoss(huber_loss_history, FALSE, loss)
            /\ h' = [h EXCEPT !.ep.fits = @ + 1,
                              !.ep.fits_after_done =
                                  IF env_over THEN @ + 1 ELSE @,
                              !.ep.fit_mem = Len(memory),
                              !.written = @ \cup {ScoreIndex(episode)},
                              !.ep.fit_none = FALSE,
                              !.ep.fit_w0 = weights,
                              !.ep.fit_l0 = huber_loss_history[episode - 1]]
    /\ pc' = "tp_return"
    /\ UNCHANGED <<cfgvars, glvars, observe_left, tpvars, ravars, envvars,
                   agent, memory, max_scores, total_scores>>

\* _game_loop: _train_and_play has returned; the scores of the episode are
\* updated.
TrainReturn ==
    /\ pc = "tp_return"
    /\ current_state' = tp_next_state
    /\ reward' = tp_reward
    /\ done' = tp_done
    /\ total_score' = TotalAddReward(total_score, tp_reward)
    /\ max_score' = MaxScore(max_score, tp_reward)
    /\ pc' = "while"
    /\ TrainAndPlayLocalsDropped
    /\ UNCHANGED <<cfgvars, episode, observe_left, ravars, envvars,
                   agentvars, scorevars, h>>

\* _game_loop: the episode is over; its scores are written and the episode
\* number is yielded to play_game.
WriteScores ==
    /\ pc = "while"
    /\ done
    /\ max_scores' = [max_scores EXCEPT ![ScoreIndex(episode)] = max_score]
    /\ total_scores' =
          [total_scores EXCEPT ![ScoreIndex(episode)] = total_score]
    /\ h' = [h EXCEPT !.reported = Append(@, episode),
                      !.written = @ \cup {ScoreIndex(episode)},
                      !.ep.score_writes = @ + 1]
    /\ pc' = "yielded"
    /\ UNCHANGED <<cfgvars, glvars, observe_left, tpvars, ravars, envvars,
                   agentvars, huber_loss_history>>

\* play_game: _end_of_episode_actions for the yielded episode (saving,
\* showing and plotting touch no state of the loop), then the generator is
\* resumed.
EndOfEpisodeActions ==
    /\ pc = "yielded"
    /\ h' = [h EXCEPT !.eoe = Append(@, h.reported[Len(h.reported)])]
    /\ pc' = "for_episode"
    /\ UNCHANGED <<cfgvars, glvars, observe_left, tpvars, ravars, envvars,
                   agentvars, scorevars>>

Next ==
    \/ PlayGame
    \/ ResetEpisode
    \/ GameLoopExhausted
    \/ ObserveStep
    \/ StackInitialState
    \/ EnterTrainAndPlay
    \/ TakeAction
    \/ RepeatStep
    \/ RepeatReturn
    \/ Fit
    \/ TrainReturn
    \/ WriteScores
    \/ EndOfEpisodeActions

Spec == Init /\ [][Next]_vars

\* The interpreter runs the loop on: a statement that can be executed is
\* executed, and the environment answers every step.
SpecLive == Init /\ [][Next]_vars /\ WF_vars(Next)

\* ------------------------------------------------- the startup of skiing.py
\* The argument vectors the startup is followed for.
StartupArgs ==
    {[agent_path |-> c.path, file_exists |-> c.exists, stored |-> c.stored,
      downsample_scale |-> ds,
      epsilon |-> e, final_epsilon |-> fe, epsilon_decay |-> dec,
      total_observe_count |-> toc, target_model_change |-> tmc,
      gamma |-> 9, info_interval_mean |-> 10, plot_train_results |-> TRUE] :
        c \in {[path |-> "", exists |-> FALSE, stored |-> "none"],
               [path |-> "agent", exists |-> FALSE, stored |-> "none"],
               [path |-> "agent", exists |-> TRUE, stored |-> "same"],
               [path |-> "agent", exists |-> TRUE, stored |-> "other_shape"],
               [path |-> "agent", exists |-> TRUE, stored |-> "other_actions"]},
        ds \in {1, 5, 6},
        e \in {5, 10, 11},
        fe \in {1, 10, 11},
        dec \in {1, 6},
        toc \in {0, 2, 600},
        tmc \in {100, 1000}}

\* Control is at the first statement after the arguments are read: no game,
\* no policy and no agent exist yet.
InitStartup ==
    /\ episodes = 1
    /\ steps_per_action = 1
    /\ fit_frequency = 1
    /\ no_operation = 1
    /\ agent_frame_history \in {MaxFrameHistory, MIN_FRAME_DIM_THAT_PASSES_NET}
    /\ batch_size = MaxBatchSize
    /\ args \in StartupArgs
    /\ observation_space_shape = <<>>
    /\ policy = <<>>
    /\ agent = NoAgent
    /\ pc = "main"
    /\ NothingPlayed

\* game = Game(...): Game.__init__ makes the environment and computes the
\* observation space's shape; the environment is neither reset nor stepped.
CreateGame ==
    /\ pc = "main"
    /\ observation_space_shape' =
          ObservationSpaceShape(args.downsample_scale, agent_frame_history)
    /\ pc' = "game_created"
    /\ UNCHANGED <<episodes, steps_per_action, fit_frequency, no_operation,
                   agent_frame_history, batch_size, args, policy, error,
                   warnings, glvars, observe_left, tpvars, ravars, envvars,
                   agentvars, scorevars, h>>

\* The optimizer and the policy are created.
CreatePolicy ==
    /\ pc = "game_created"
    /\ policy' = EGreedyPolicy(args)
    /\ pc' = "policy_created"
    /\ UNCHANGED <<episodes, steps_per_action, fit_frequency, no_operation,
                   agent_frame_history, batch_size, args,
                   observation_space_shape, error, warnings, glvars,
                   observe_left, tpvars, ravars, envvars, agentvars,
                   scorevars, h>>

\* load_dqn_agent fails on a path that holds no file.
LoadFails == ~args.file_exists

\* A create_agent that does not compare the action sizes.
CreateAgentErrorShapeOnly ==
    IF args.agent_path = "" THEN ""
    ELSE IF LoadFails THEN "FileNotFoundError"
    ELSE LET dqn == StoredAgent(args.stored, observation_space_shape) IN
         IF dqn.observation_space_shape # observation_space_shape
         THEN "IncompatibleAgentConfigurationError"
         ELSE ""

\* create_agent: the exception it raises, "" when it returns an agent.
CreateAgentError ==
    IF args.agent_path = "" THEN ""
    ELSE IF LoadFails THEN "FileNotFoundError"
    ELSE LET dqn == StoredAgent(args.stored, observation_space_shape) IN
         IF dqn.observation_space_shape # observation_space_shape
         THEN "IncompatibleAgentConfigurationError"
         ELSE IF dqn.action_size # action_space_size
         THEN "IncompatibleAgentConfigurationError"
         ELSE ""

\* agent = create_agent()
CreateAgent ==
    /\ pc = "policy_created"
    /\ IF CreateAgentError # ""
       THEN /\ error' = CreateAgentError
            /\ pc' = "aborted"
            /\ UNCHANGED agentvars
       ELSE /\ error' = error
            /\ pc' = "agent_created"
            /\ IF args.agent_path # ""
               THEN LET dqn == StoredAgent(args.stored,
                                           observation_space_shape) IN
                    /\ agent' = LoadedAgent(dqn, policy)
                    /\ memory' = dqn.memory
                    /\ weights' = dqn.weights
               ELSE /\ agent' = NewAgent(observation_space_shape, policy)
                    /\ memory' = <<>>
                    /\ weights' = 0
    /\ UNCHANGED <<episodes, steps_per_action, fit_frequency, no_operation,
                   agent_frame_history, batch_size, args,
                   observation_space_shape, policy, warnings, glvars,
                   observe_left, tpvars, ravars, envvars, scorevars, h>>

\* run_checks, statement by statement: what each `if` tests, whether it
\* raises or warns, and the exception or warning it gives.
RunChecksSteps ==
    <<[raises |-> FALSE, tag |-> "info_interval_mean",
       hit |-> args.info_interval_mean = 1],
      [raises |-> FALSE, tag |-> "target_model_change",
       hit |-> args.target_model_change < bad_target_model_change],
      [raises |-> TRUE, tag |-> "FileNotFoundError",
       hit |-> ~args.file_exists /\ args.agent_path # ""],
      [raises |-> FALSE, tag |-> "agent_frame_history",
       hit |-> agent_frame_history > frame_history_ceiling],
      [raises |-> FALSE, tag |-> "downsample_scale",
       hit |-> args.downsample_scale = 1],
      [raises |-> TRUE, tag |-> "ValueError: downsample",
       hit |-> ~frame_can_pass_the_net(observation_space_shape[2],
                                       observation_space_shape[3])],
      [raises |-> FALSE, tag |-> "plot_train_results",
       hit |-> args.plot_train_results /\ episodes = 1],
      [raises |-> TRUE, tag |-> "ValueError: epsilon",
       hit |-> args.epsilon > 10],
      [raises |-> TRUE, tag |-> "ValueError: final_epsilon",
       hit |-> args.final_epsilon > 10],
      [raises |-> TRUE, tag |-> "ValueError: final_epsilon > epsilon",
       hit |-> args.final_epsilon > args.epsilon],
      [raises |-> FALSE, tag |-> "epsilon_decay",
       hit |-> /\ args.epsilon_decay > args.epsilon - args.final_epsilon
               /\ args.epsilon # args.final_epsilon],
      [raises |-> FALSE, tag |-> "total_observe_count",
       hit |-> /\ args.total_observe_count < poor_observe
               /\ args.agent_path = ""],
      [raises |-> TRUE, tag |-> "ValueError: total_observe_count",
       hit |-> Len(memory) + args.total_observe_count < batch_size]>>

\* A run_checks whose test of final_epsilon against epsilon does not raise.
RaisingStepsButEpsilonOrder ==
    {i \in DOMAIN RunChecksSteps :
        /\ RunChecksSteps[i].raises
        /\ RunChecksSteps[i].hit
        /\ RunChecksSteps[i].tag # "ValueError: final_epsilon > epsilon"}

\* A run_checks whose warning about epsilon_decay raises as well.
RaisingStepsAndDecayWarning ==
    {i \in DOMAIN RunChecksSteps :
        /\ RunChecksSteps[i].hit
        /\ RunChecksSteps[i].raises \/ RunChecksSteps[i].tag = "epsilon_decay"}

\* The statements of run_checks that raise on this run.
RaisingSteps ==
    {i \in DOMAIN RunChecksSteps :
        RunChecksSteps[i].raises /\ RunChecksSteps[i].hit}

\* The first of them, 0 when run_checks returns.
FirstRaise ==
    IF RaisingSteps = {} THEN 0
    ELSE CHOOSE i \in RaisingSteps : \A j \in RaisingSteps : i <= j

\* run_checks()
RunChecks ==
    /\ pc = "agent_created"
    /\ warnings' =
          {RunChecksSteps[i].tag : i \in
              {j \in DOMAIN RunChecksSteps :
                  /\ ~RunChecksSteps[j].raises
                  /\ RunChecksSteps[j].hit
                  /\ (FirstRaise = 0 \/ j < FirstRaise)}}
    /\ IF FirstRaise # 0
       THEN /\ error' = RunChecksSteps[FirstRaise].tag
            /\ pc' = "aborted"
       ELSE /\ error' = error
            /\ pc' = "play_game"
    /\ h' = [h EXCEPT !.checks_run = TRUE]
    /\ UNCHANGED <<episodes, steps_per_action, fit_frequency, no_operation,
                   agent_frame_history, batch_size, args,
                   observation_space_shape, policy, glvars, observe_left,
                   tpvars, ravars, envvars, agentvars, scorevars>>

NextStartup ==
    \/ CreateGame
    \/ CreatePolicy
    \/ CreateAgent
    \/ RunChecks
    \/ Next

SpecStartup == InitStartup /\ [][NextStartup]_vars

\* ------------------------------------------------------- the replay memory
\* A new agent whose memory is empty; the transitions it is handed are any.
InitMemory ==
    /\ episodes = 1
    /\ steps_per_action = 1
    /\ fit_frequency = 1
    /\ no_operation = 1
    /\ agent_frame_history = MaxFrameHistory
    /\ batch_size = MaxBatchSize
    /\ args = PlainArgs
    /\ observation_space_shape =
          ObservationSpaceShape(args.downsample_scale, agent_frame_history)
    /\ policy = EGreedyPolicy(args)
    /\ agent = NewAgent(observation_space_shape, policy)
    /\ pc = "memory"
    /\ NothingPlayed

\* agent.append_to_memory(current_state, action, reward, next_state)
AppendToMemory ==
    /\ pc = "memory"
    /\ Len(h.appended) < MaxAppends
    /\ \E a \in Actions, r \in Rewards, f \in {0, 1} :
          LET t == Transition(Raw(Frame(f)), a, r, Raw(Frame(f + 1))) IN
          /\ memory' = MemoryAppend(memory, t)
          /\ h' = [h EXCEPT !.appended = Append(@, t)]
    /\ UNCHANGED <<cfgvars, pc, glvars, observe_left, tpvars, ravars, envvars,
                   agent, weights, scorevars>>

NextMemory == AppendToMemory

SpecMemory == InitMemory /\ [][NextMemory]_vars

\* ------------------------------------------------------------- properties
\* Control is inside the loop of _train_and_play, before its fit.
InGroup == pc \in {"tp_loop", "ra_loop", "ra_return"}

\* Control is in the PLAY phase of an episode.
InPlay == pc \in {"tp_loop", "ra_loop", "ra_return", "fit", "tp_return"}

\* Control is in an episode whose OBSERVE phase is over.
ObserveOver == InPlay \/ pc \in {"stack", "while", "yielded"}

\* C1: when _repeat_action returns, every env.step of the repeat was given
\* the chosen action; without a done the repeat took steps_per_action steps;
\* its reward is the sum of the rewards of its steps; and after a done the
\* repeat took no further step, and the frame of the done step was neither
\* stacked (the raw frame is returned) nor appended.  While the repeat is
\* still looping, no step of it has reported done.
C1_RepeatAction ==
    /\ pc = "ra_loop" =>
          /\ ~ra_done
          /\ h.ep.rep_done_at = 0
          /\ h.ep.rep_steps < steps_per_action
          /\ h.ep.rep_appends = h.ep.rep_steps
    /\ pc = "ra_return" =>
          /\ h.ep.rep_actions = {action}
          /\ ra_reward = h.ep.rep_sum
          /\ ~ra_done =>
                /\ h.ep.rep_steps = steps_per_action
                /\ h.ep.rep_appends = h.ep.rep_steps
                /\ h.ep.rep_done_at = 0
          /\ ra_done =>
                /\ h.ep.rep_done_at = h.ep.rep_steps
                /\ h.ep.rep_steps <= steps_per_action
                /\ h.ep.rep_appends = h.ep.rep_steps - 1
                /\ ra_next_state = Raw(Frame(env_frame))

\* A repeat of at least two steps that a done ended, with a non-zero sum.
C1_Witness ==
    /\ pc = "ra_return"
    /\ ra_done
    /\ h.ep.rep_steps >= 2
    /\ ra_reward # 0

\* C2: at the end of an episode the number of append_to_memory calls equals
\* the number of env.step calls of its PLAY phase.
C2_EveryPlayStepAppends ==
    pc = "yielded" => h.ep.appends = h.ep.play_steps

\* C3: every action is selected on, and every transition is appended with,
\* the stack of the agent_frame_history most recently observed frames of the
\* episode, newest first.
C3_StateIsMostRecentFrames ==
    /\ pc = "tp_loop" =>
          /\ Len(SelectionState) = agent_frame_history
          /\ SelectionState = h.ep.recent
    /\ (InPlay /\ h.ep.appends > 0) =>
          /\ memory[Len(memory)].state = h.ep.prev_recent
          /\ memory[Len(memory)].next_state = h.ep.recent

\* C4: a fit follows each group of fit_frequency action selections and the
\* shorter group a done ended, and nothing else: inside a group the fits made
\* are those of the full groups before it, the fit is reached with the group
\* complete or the episode done, and after it (and at the end of the episode)
\* the fits made are ceil(selections / fit_frequency).
C4_FitOncePerGroup ==
    /\ InGroup =>
          /\ h.ep.fits * fit_frequency = h.ep.selections - h.ep.grp_sel
          /\ h.ep.grp_sel <= fit_frequency
          /\ pc = "tp_loop" => h.ep.grp_sel < fit_frequency
    /\ pc = "fit" =>
          /\ h.ep.fits * fit_frequency = h.ep.selections - h.ep.grp_sel
          /\ h.ep.grp_sel >= 1
          /\ h.ep.grp_sel = fit_frequency \/ (env_over /\ tp_done)
          /\ h.ep.grp_sel <= fit_frequency
    /\ pc \in {"tp_return", "while", "yielded"} =>
          h.ep.fits = CeilDiv(h.ep.selections, fit_frequency)

\* An episode of three selections in groups of two: two fits.
C4_Witness ==
    /\ pc = "yielded"
    /\ fit_frequency = 2
    /\ h.ep.selections = 3
    /\ h.ep.fits = 2

\* C5: an episode starts with env.reset and an OBSERVE phase of n no-op
\* steps, 1 <= n <= no_operation, cut short only by a done; during OBSERVE no
\* action is selected, nothing is appended and no fit is made, and PLAY
\* starts only after OBSERVE.
C5_ObservePhase ==
    /\ pc = "observe" =>
          /\ h.resets = episode
          /\ h.ep.obs_steps < h.ep.obs_n
          /\ ~env_over
          /\ h.ep.selections = 0 /\ h.ep.appends = 0 /\ h.ep.fits = 0
          /\ h.ep.play_steps = 0
    /\ ObserveOver =>
          /\ h.resets = episode
          /\ h.ep.obs_n \in 1 .. no_operation
          /\ h.ep.obs_steps >= 1
          /\ h.ep.obs_steps <= h.ep.obs_n
          /\ h.ep.obs_actions = {0}
          /\ h.ep.obs_steps < h.ep.obs_n =>
                (env_over /\ h.ep.play_steps = 0 /\ h.ep.selections = 0)
    /\ pc = "stack" =>
          /\ h.ep.selections = 0 /\ h.ep.appends = 0 /\ h.ep.fits = 0
          /\ h.ep.play_steps = 0

\* PLAY has begun after an OBSERVE phase of two steps.
C5_Witness ==
    /\ pc = "tp_loop"
    /\ h.ep.obs_n = 2
    /\ h.ep.obs_steps = 2

\* C6: the episodes 1, 2, ... are reported once each, in order, and none
\* after `episodes`; the scores of an episode are written when it is
\* reported; its end-of-episode actions are over before the next reset.
C6_EpisodesSequential ==
    /\ h.reported = [i \in 1 .. Len(h.reported) |-> i]
    /\ Len(h.reported) <= episodes
    /\ h.eoe = SubSeq(h.reported, 1, Len(h.eoe))
    /\ pc = "yielded" =>
          /\ Len(h.reported) = episode
          /\ Len(h.eoe) = episode - 1
          /\ max_scores[episode - 1] = max_score
          /\ total_scores[episode - 1] = total_score
    /\ (pc = "observe" \/ (ObserveOver /\ pc # "yielded")) =>
          /\ h.resets = episode
          /\ Len(h.reported) = episode - 1
          /\ Len(h.eoe) = episode - 1
    /\ pc = "for_episode" =>
          /\ h.resets = episode
          /\ Len(h.reported) = episode
          /\ Len(h.eoe) = episode
    /\ pc = "finished" =>
          /\ Len(h.reported) = episodes
          /\ Len(h.eoe) = episodes
          /\ h.resets = episodes

\* The run is over after two episodes or more.
C6_Witness ==
    /\ pc = "finished"
    /\ Len(h.reported) >= 2
    /\ Len(h.eoe) = Len(h.reported)

\* C7: after an episode with a PLAY step, max_scores[episode - 1] is the
\* largest reward of a single environment step of its PLAY phase.
C7_MaxScoreIsLargestStepReward ==
    (pc = "yielded" /\ h.ep.play_steps >= 1) =>
        max_scores[episode - 1] = h.ep.play_max

\* C8: after an episode, total_scores[episode - 1] is the sum of the rewards
\* of the env.step calls of its PLAY phase, the done step included, and of
\* no OBSERVE step.
C8_TotalScoreIsSumOfPlayRewards ==
    /\ pc = "yielded" => total_scores[episode - 1] = h.ep.play_sum
    /\ pc = "while" => total_score = h.ep.play_sum

\* An episode of three PLAY steps or more whose total is not zero.
C8_Witness ==
    /\ pc = "yielded"
    /\ h.ep.play_steps >= 3
    /\ total_scores[episode - 1] # 0

\* C9: a fit made with fewer than batch_size transitions stored answers
\* None, raises nothing, leaves the weights and the loss history of the
\* episode as they were and returns to the game loop; the loss history
\* changes only on a fit that did not answer None.
C9_FitWithoutDataIsNoOp ==
    pc = "tp_return" =>
        /\ error = ""
        /\ h.ep.fit_mem < agent.batch_size =>
              /\ h.ep.fit_none
              /\ weights = h.ep.fit_w0
              /\ huber_loss_history[episode - 1] = h.ep.fit_l0
        /\ huber_loss_history[episode - 1] # h.ep.fit_l0 => ~h.ep.fit_none

\* A fit has just answered None on a memory short of batch_size.
C9_Witness ==
    /\ pc = "tp_return"
    /\ h.ep.fit_none
    /\ h.ep.fit_mem < agent.batch_size
    /\ h.ep.selections >= 1

\* A fatal condition of the startup holds for the arguments of the run: the
\* agent file is missing, the stored agent does not fit the game, or one of
\* the tests of run_checks that raise is met.
FatalCondition ==
    LET shape == ObservationSpaceShape(args.downsample_scale,
                                       agent_frame_history)
        stored_size == IF args.agent_path = "" THEN 0
                       ELSE Len(StoredAgent(args.stored, shape).memory)
    IN  \/ args.agent_path # "" /\ ~args.file_exists
        \/ args.agent_path # "" /\ args.stored \in {"other_shape", "other_actions"}
        \/ shape[2] < MIN_FRAME_DIM_THAT_PASSES_NET
        \/ shape[3] < MIN_FRAME_DIM_THAT_PASSES_NET
        \/ args.epsilon > 10
        \/ args.final_epsilon > 10
        \/ args.final_epsilon > args.epsilon
        \/ stored_size + args.total_observe_count < batch_size

\* C10: in a run where a fatal condition holds, play_game is never entered:
\* the environment is never reset and never stepped.
C10_FatalBeforePlay ==
    FatalCondition =>
        /\ pc \in {"main", "game_created", "policy_created", "agent_created",
                   "aborted"}
        /\ h.resets = 0
        /\ env_steps = 0

\* run_checks has raised and the startup is aborted.
C10_Witness ==
    /\ pc = "aborted"
    /\ FatalCondition
    /\ error = "ValueError: final_epsilon > epsilon"
    /\ h.resets = 0

\* create_agent has run (it returned an agent or raised).
CreateAgentOver == pc \notin {"main", "game_created", "policy_created"}

\* C11: when an agent is loaded from agent_path, create_agent raises
\* IncompatibleAgentConfigurationError if the stored agent's observation
\* space shape or action size is not the game's, and returns the loaded agent
\* only when both are; the error ends the startup before run_checks and
\* before play_game.
C11_IncompatibleAgentRaises ==
    (CreateAgentOver /\ args.agent_path # "" /\ args.file_exists) =>
        /\ args.stored \in {"other_shape", "other_actions"} =>
              /\ pc = "aborted"
              /\ error = "IncompatibleAgentConfigurationError"
              /\ ~agent.loaded
              /\ ~h.checks_run
              /\ h.resets = 0
        /\ args.stored = "same" =>
              /\ error # "IncompatibleAgentConfigurationError"
              /\ agent.loaded
        /\ agent.loaded =>
              /\ agent.observation_space_shape =
                    ObservationSpaceShape(args.downsample_scale,
                                          agent_frame_history)
              /\ agent.action_size = Cardinality(Actions)

\* create_agent has raised on a stored agent of another action space.
C11_Witness ==
    /\ pc = "aborted"
    /\ args.stored = "other_actions"
    /\ error = "IncompatibleAgentConfigurationError"

\* The conditions run_checks only warns about.
WarningTags ==
    {"target_model_change", "agent_frame_history", "downsample_scale",
     "epsilon_decay", "total_observe_count"}

\* The game loop has been entered: run_checks returned.
PlayGameReached == pc \notin {"main", "game_created", "policy_created",
                              "agent_created", "aborted"}

\* C12: a run_checks called with epsilon > 1, final_epsilon > 1 or
\* final_epsilon > epsilon raises a ValueError, so play_game is reached only
\* with final_epsilon <= epsilon <= 1 (10 tenths); a run_checks that raises
\* was given a fatal condition, so its warnings alone never abort the run,
\* and the warnings it gave are those of the arguments.
C12_EpsilonChecksRaise ==
    LET bad_epsilon == \/ args.epsilon > 10
                       \/ args.final_epsilon > 10
                       \/ args.final_epsilon > args.epsilon
        shape == ObservationSpaceShape(args.downsample_scale,
                                       agent_frame_history)
        too_small == \/ shape[2] < MIN_FRAME_DIM_THAT_PASSES_NET
                     \/ shape[3] < MIN_FRAME_DIM_THAT_PASSES_NET
        no_data == Len(memory) + args.total_observe_count < batch_size
    IN  /\ (h.checks_run /\ bad_epsilon) =>
              /\ pc = "aborted"
              /\ error \in {"ValueError: downsample", "ValueError: epsilon",
                            "ValueError: final_epsilon",
                            "ValueError: final_epsilon > epsilon"}
        /\ PlayGameReached =>
              /\ args.final_epsilon <= args.epsilon
              /\ args.epsilon <= 10
        /\ (h.checks_run /\ pc = "aborted") =>
              bad_epsilon \/ too_small \/ no_data
        /\ (h.checks_run /\ ~bad_epsilon /\ ~too_small /\ ~no_data) =>
              /\ PlayGameReached
              /\ "target_model_change" \in warnings
                    <=> args.target_model_change < 500
              /\ "agent_frame_history" \in warnings
                    <=> agent_frame_history > 10
              /\ "downsample_scale" \in warnings
                    <=> args.downsample_scale = 1
              /\ "epsilon_decay" \in warnings
                    <=> /\ args.epsilon_decay >
                              args.epsilon - args.final_epsilon
                        /\ args.epsilon # args.final_epsilon
              /\ "total_observe_count" \in warnings
                    <=> /\ args.total_observe_count < 500
                        /\ args.agent_path = ""

\* run_checks gave all five warnings and the game loop is entered.
C12_Witness ==
    /\ pc = "play_game"
    /\ h.checks_run
    /\ WarningTags \subseteq warnings

\* C13: run_checks raises 'Downsample is too big' exactly when the
\* downsampled height ceil(pixel_rows / downsample_scale) or the downsampled
\* width ceil(pixel_columns / downsample_scale) is below the minimum frame
\* dimension of the network.
C13_DownsampleTestsHeightAndWidth ==
    h.checks_run =>
        (error = "ValueError: downsample"
            <=> \/ CeilDiv(EnvHeight, args.downsample_scale)
                      < MIN_FRAME_DIM_THAT_PASSES_NET
                \/ CeilDiv(EnvWidth, args.downsample_scale)
                      < MIN_FRAME_DIM_THAT_PASSES_NET)

\* C14: after any sequence of appends to a memory of capacity
\* replay_memory_size, the memory holds at most replay_memory_size
\* transitions, and they are, in order, the most recently appended ones: all
\* of them while no more than the capacity were appended, the last
\* replay_memory_size of them afterwards (the oldest are evicted first).
C14_MemoryKeepsMostRecent ==
    pc = "memory" =>
        LET n == Len(h.appended) IN
        /\ Len(memory) <= replay_memory_size
        /\ Len(memory) = IF n < replay_memory_size THEN n
                         ELSE replay_memory_size
        /\ \A i \in 1 .. Len(memory) :
              memory[i] = h.appended[n - Len(memory) + i]

\* More transitions than the capacity were appended, the evicted ones being
\* different from the ones kept.
C14_Witness ==
    /\ pc = "memory"
    /\ Len(h.appended) > replay_memory_size + 1
    /\ Len(memory) = replay_memory_size
    /\ \A i \in 1 .. Len(h.appended) - replay_memory_size :
          \A j \in 1 .. Len(memory) : h.appended[i] # memory[j]

\* C15: in every run run_checks accepts, after any number of action
\* selections epsilon lies between final_epsilon and the initial epsilon: it
\* is the initial epsilon during the first total_observe_count selections,
\* then each selection lowers it by epsilon_decay, or to final_epsilon when
\* that is nearer, and it never rises.
C15_EpsilonWithinBounds ==
    PlayGameReached =>
        /\ policy = agent.policy
        /\ policy.steps = h.ep.selections
        /\ args.final_epsilon <= policy.epsilon
        /\ policy.epsilon <= args.epsilon
        /\ policy.steps <= args.total_observe_count =>
              policy.epsilon = args.epsilon
        /\ policy.steps >= 1 => policy.epsilon <= h.eps_before
        /\ policy.steps > args.total_observe_count =>
              policy.epsilon =
                  IF h.eps_before - args.epsilon_decay >= args.final_epsilon
                  THEN h.eps_before - args.epsilon_decay
                  ELSE args.final_epsilon

\* An accepted run whose epsilon_decay exceeds epsilon - final_epsilon: the
\* selection after the observe steps has lowered epsilon to final_epsilon,
\* and a later selection has been made.
C15_Witness ==
    /\ PlayGameReached
    /\ args.epsilon_decay > args.epsilon - args.final_epsilon
    /\ args.epsilon > args.final_epsilon
    /\ policy.steps > args.total_observe_count + 1
    /\ h.eps_before = args.final_epsilon
    /\ policy.epsilon = args.final_epsilon

\* C16: with steps_per_action >= 1, fit_frequency >= 1 and an environment
\* that reports done in every episode, play_game terminates, and it does so
\* after exactly `episodes` episodes, 1 .. episodes in order; within an
\* episode no action is selected after the action whose repeat reported
\* done, and the while loop of the episode is left then.
C16_PlayGameTerminates ==
    /\ <>(pc = "finished")
    /\ [](pc = "finished" =>
             /\ h.reported = [k \in 1 .. episodes |-> k]
             /\ h.resets = episodes)
    /\ [](h.ep.rep_done_at > 0 =>
             /\ pc \notin {"tp_loop", "ra_loop"}
             /\ pc = "while" => done)

\* play_game has returned after its last episode, which ended in PLAY.
C16_Witness ==
    /\ pc = "finished"
    /\ Len(h.reported) = episodes
    /\ h.ep.rep_done_at > 0

\* C17: from the step at which the environment reports done until the next
\* env.reset, the environment is not stepped, the policy selects no action
\* and nothing is appended to the memory; the agent is only fitted, at most
\* once (the fit that closes the current group), and not at all when the
\* done came in OBSERVE.
C17_NothingAfterDone ==
    /\ [][(env_over /\ env_over') =>
             /\ env_frame' = env_frame
             /\ env_steps' = env_steps
             /\ policy' = policy
             /\ memory' = memory
             /\ h'.ep.selections = h.ep.selections
             /\ h'.ep.appends = h.ep.appends
             /\ h'.ep.fits_after_done <= 1
             /\ h.ep.play_steps = 0 => h'.ep.fits = 0]_vars
    /\ [](env_over => pc \notin {"observe", "tp_loop", "ra_loop"})

\* The environment has reported done in PLAY and the fit that closes the
\* group has been called.
C17_Witness ==
    /\ env_over
    /\ pc = "tp_return"
    /\ h.ep.fits_after_done = 1
    /\ h.ep.selections >= 2

\* C18: in an episode whose environment reported done during OBSERVE, the
\* PLAY phase is skipped: no action is selected, nothing is appended, fit is
\* not called and no loss is recorded; the episode is recorded with max
\* score -inf and total score 0, and its index is reported like that of any
\* other episode, so that the run goes on with the next one.
C18_DoneInObserveSkipsPlay ==
    h.ep.obs_done =>
        /\ ~InPlay
        /\ h.ep.play_steps = 0
        /\ h.ep.selections = 0
        /\ h.ep.appends = 0
        /\ h.ep.fits = 0
        /\ max_score = NegInf
        /\ total_score = 0
        /\ huber_loss_history[episode - 1] = 0
        /\ pc \in {"yielded", "for_episode", "finished"} =>
              /\ max_scores[episode - 1] = NegInf
              /\ total_scores[episode - 1] = 0
              /\ h.reported = [k \in 1 .. episode |-> k]
        /\ pc = "for_episode" => h.eoe = h.reported
        /\ pc = "finished" => episode = episodes

\* The first episode ended in OBSERVE and was recorded so; the second one
\* is being played.
C18_Witness ==
    /\ episode = 2
    /\ InPlay
    /\ h.reported = <<1>>
    /\ max_scores[0] = NegInf
    /\ total_scores[0] = 0

\* C19: the transition _repeat_action appends at its k-th step carries the
\* action of the repeat, as reward the sum of the environment rewards of
\* steps 1 .. k of the repeat, as state the stacked state of the repeat
\* before the step (for k = 1 the state the repeat was handed, afterwards the
\* next_state of the transition appended before) and as next_state that state
\* with the preprocessed frame of the step pushed in front, which is the state
\* of the repeat after the step.  With fit_frequency = 1 the two are the
\* most recent frames before and after the step.
C19_TransitionOfRepeatStep ==
    (pc \in {"ra_loop", "ra_return"} /\ h.ep.rep_appends >= 1) =>
        LET t == memory[Len(memory)]
            frame == IF h.ep.rep_done_at > 0 THEN env_frame - 1
                     ELSE env_frame
        IN  /\ t.action = action
            /\ t.reward = h.ep.app_sum
            /\ h.ep.rep_done_at = 0 => t.reward = h.ep.rep_sum
            /\ t.next_state =
                  <<[id |-> frame, pre |-> TRUE]>>
                      \o SubSeq(t.state, 1, agent_frame_history - 1)
            /\ t.next_state = ra_current_state
            /\ h.ep.rep_appends = 1 => t.state = h.ep.rep_state0
            /\ h.ep.rep_appends >= 2 =>
                  /\ Len(memory) >= 2
                  /\ t.state = memory[Len(memory) - 1].next_state
            /\ fit_frequency = 1 =>
                  /\ t.state = h.ep.prev_recent
                  /\ t.next_state = h.ep.recent

\* The second step of a repeat has appended a transition whose reward is
\* the sum of two rewards, after the transition of the first step.
C19_Witness ==
    /\ pc = "ra_return"
    /\ h.ep.rep_appends = 2
    /\ memory[Len(memory)].reward = 2
    /\ memory[Len(memory) - 1].reward = 1
    /\ memory[Len(memory)].state = memory[Len(memory) - 1].next_state

\* The episode in hand has been yielded: its scores are written.
EpisodeYielded == episode >= 1 /\ pc \in {"yielded", "for_episode", "finished"}

\* C20: running episode k changes only the entries k - 1 of max_scores,
\* total_scores and huber_loss_history: max_scores[k - 1] and
\* total_scores[k - 1] are assigned once, when the episode ends, the loss
\* entry only by the fits of the episode, and the entries of the other
\* episodes are left as they are; every index written lies in
\* 0 .. episodes - 1, and the entries of the episodes not yet run hold their
\* initial value.
C20_EpisodeWritesOwnIndex ==
    /\ [][\A i \in 0 .. episodes - 1 :
             /\ (max_scores'[i] # max_scores[i]
                    \/ total_scores'[i] # total_scores[i]) =>
                   /\ i = episode - 1
                   /\ pc = "while"
                   /\ pc' = "yielded"
             /\ huber_loss_history'[i] # huber_loss_history[i] =>
                   /\ i = episode - 1
                   /\ pc = "fit"]_vars
    /\ [](/\ h.written \subseteq 0 .. episodes - 1
          /\ h.written \subseteq {k - 1 : k \in 1 .. episode}
          /\ DOMAIN max_scores = 0 .. episodes - 1
          /\ DOMAIN total_scores = 0 .. episodes - 1
          /\ DOMAIN huber_loss_history = 0 .. episodes - 1)
    /\ [](h.ep.score_writes = IF EpisodeYielded THEN 1 ELSE 0)
    /\ [](\A i \in 0 .. episodes - 1 :
             /\ (i > episode - 1 \/ (i = episode - 1 /\ ~EpisodeYielded)) =>
                   /\ max_scores[i] = 0
                   /\ total_scores[i] = 0
             /\ i > episode - 1 => huber_loss_history[i] = 0)

\* Both episodes have written their own entries, which differ.
C20_Witness ==
    /\ pc = "finished"
    /\ episode = 2
    /\ max_scores[0] = NegInf
    /\ max_scores[1] = 1
    /\ total_scores[1] # 0
    /\ huber_loss_history[0] = 0
    /\ huber_loss_history[1] > 0
    /\ h.written = {0, 1}

\* C21: after create_agent has loaded an agent, its target_model_change,
\* gamma, batch_size and policy are those of the configuration of this run,
\* whatever the stored agent held for them, while its weights, its memory,
\* its observation space shape and its action size are those of the stored
\* agent, unchanged.
C21_LoadedAgentTakesRunConfiguration ==
    agent.loaded =>
        LET dqn == StoredAgent(args.stored, observation_space_shape) IN
        /\ agent.target_model_change = args.target_model_change
        /\ agent.gamma = args.gamma
        /\ agent.batch_size = batch_size
        /\ agent.policy = policy
        /\ agent.observation_space_shape = dqn.observation_space_shape
        /\ agent.action_size = dqn.action_size
        /\ pc = "agent_created" =>
              /\ agent.policy = EGreedyPolicy(args)
              /\ agent.policy # dqn.policy
              /\ weights = dqn.weights
              /\ memory = dqn.memory

\* An agent has been loaded whose stored target_model_change, gamma and
\* batch_size are not those of this run; it holds the stored weights and
\* memory.
C21_Witness ==
    /\ pc = "agent_created"
    /\ agent.loaded
    /\ LET dqn == StoredAgent(args.stored, observation_space_shape) IN
       /\ dqn.target_model_change # agent.target_model_change
       /\ dqn.gamma # agent.gamma
       /\ dqn.batch_size # agent.batch_size
       /\ weights = dqn.weights
       /\ weights # 0
       /\ memory = dqn.memory
       /\ memory # <<>>

====
